---- MODULE Spec2Model ----
(***************************************************************************)
(* SST Study Sphere (src/app.py): the DataManager operations and the       *)
(* Streamlit handlers that drive them, over the four external stores       *)
(* (users, projects, project_likes, storage bucket), the two memoized      *)
(* fetchers and the per-session state (st.session_state.user and           *)
(* st.session_state.user_likes).                                           *)
(*                                                                         *)
(* Every external call (one supabase request) is one step of the session   *)
(* that issues it, so the steps of different sessions interleave between   *)
(* calls.  Every external call may also raise: the Fail* actions take the  *)
(* except-branch of the enclosing try.                                     *)
(***************************************************************************)
EXTENDS Integers, Sequences, FiniteSets, TLC

\* ---------------------------------------------------------------- constants
XP_NOTE == 15
XP_LIKE == 10
USERNAME_MIN == 3
USERNAME_MAX == 36
RAND_LO == 100
RAND_HI == 999
LB_LIMIT == 50

\* ------------------------------------------------------------------- bounds
MaxCalls == 2       \* add_note and like_note calls the pages of Spec begin
MaxLikeCalls == 2   \* like_note calls the pages of SpecLikes begin
MaxApiCalls == 2    \* direct add_note and like_note calls of SpecApi
MaxUsers == 3       \* rows the users table may reach
MaxLikesArg == 1    \* largest current_likes a direct like_note call passes
NumSuffix == 1      \* how many of the random suffixes RAND_LO.. are drawn
MaxOpsCalls == 1    \* direct add_note and like_note calls of SpecOps
MaxXp == 460        \* largest stored xp a header is rendered for
Precision == 1000   \* units per 1 in which a float is kept

Sessions == {"s1", "s2"}
Callers == {"s1"}              \* the session whose DataManager is called directly
None == "None"               \* Python None where a string may stand
NoUser == [anonymous |-> TRUE] \* st.session_state.user = None
NoUpload == [attached |-> FALSE] \* uploaded_file = None
True == "True"
False == "False"
NoCache == [hit |-> FALSE]     \* a memo with no live entry
GOOGLE_AUTH_USER == "GOOGLE_AUTH_USER"
NO_FILE == "#"

\* An e-mail address is <<local part, domain>>; split("@")[0] is its head.
Emails == {<<"amy", "sst.edu.sg">>, <<"bob", "sst.edu.sg">>}
\* what the sign-up form and the identity provider may bring
NewEmails == {<<"amy", "sst.edu.sg">>, <<"amy", "gmail.com">>}
NewUsernames == {"amy", "amy100", "al"}
Passwords == {"pw"}
Titles == {"Algebra Notes"}
Subjects == {"Math"}
Levels == {"Sec 2"}
Descriptions == {"Ch1-3"}

\* An uploaded file: its name is a sequence of characters.
Files == { [name |-> <<"n", " ", "(", "1", ")">>, size |-> 5, bytes |-> "B1"] }

\* The one (query, subject, level, sort_by) key the pages of this model ask for.
ListingKeys == {<<"", "All", "All", "Recent">>}

VARIABLES
  users,          \* table users: sequence of rows [email, username, password, xp]
  projects,       \* table projects: sequence of rows, id = position
  project_likes,  \* table project_likes: sequence of rows [project_id, username]
  blobs,          \* storage bucket: set of objects [path, bytes], one per path
  projCache,      \* fetch_projects memo: key -> NoCache or the listing
  lbCache,        \* fetch_leaderboard memo: NoCache or the rows
  user,           \* st.session_state.user per session: None or an account row
  user_likes,     \* st.session_state.user_likes per session: list of note ids
  pc,             \* per session: the call it is in and the next external call
  loc,            \* per session: arguments and locals of the call in progress
  ret,            \* per session: value returned by the last finished call
  fault,          \* per session: an external call of the current call raised
  calls,          \* add_note and like_note calls begun so far
  liked,          \* per session: the (username, note) pairs like_note returned True for
  dirty,          \* per session: the current call wrote a store since it last cleared the memos
  pre             \* the stores and session state when the current direct call began

vars == <<users, projects, project_likes, blobs, projCache, lbCache,
          user, user_likes, pc, loc, ret, fault, dirty, pre, calls, liked>>

stores == <<users, projects, project_likes, blobs>>


\* ------------------------------------------------------------------ helpers
Min(a, b) == IF a < b THEN a ELSE b

RECURSIVE SeqFilter(_, _)
\* The rows of q whose position is in keep, in order.
SeqFilter(q, keep) ==
  IF q = <<>> THEN <<>>
  ELSE LET n == Len(q)
           front == SeqFilter(SubSeq(q, 1, n - 1), keep)
       IN IF n \in keep THEN Append(front, q[n]) ELSE front

Reverse(q) == [i \in 1..Len(q) |-> q[Len(q) + 1 - i]]

\* hashlib.sha256(password).hexdigest(): injective, never the Google sentinel.
hash_password(password) == "sha256:" \o password

\* rows of users with the given username / e-mail, in table order
UsersByName(name) == SeqFilter(users, {i \in 1..Len(users) : users[i].username = name})
UsersByEmail(email) == SeqFilter(users, {i \in 1..Len(users) : users[i].email = email})

\* .update({"xp": xp}).eq("username", name): every matching row
UpdateXp(name, xp) ==
  [i \in 1..Len(users) |->
     IF users[i].username = name THEN [users[i] EXCEPT !.xp = xp] ELSE users[i]]

\* .update({"likes": likes}).eq("id", id)
UpdateLikes(id, likes) ==
  [i \in 1..Len(projects) |->
     IF projects[i].id = id THEN [projects[i] EXCEPT !.likes = likes] ELSE projects[i]]

RECURSIVE safe_filename(_)
\* file_name.replace(" ", "_").replace("(", "").replace(")", "")
safe_filename(name) ==
  IF name = <<>> THEN <<>>
  ELSE LET c == Head(name)
           rest == safe_filename(Tail(name))
       IN IF c = " " THEN <<"_">> \o rest
          ELSE IF c \in {"(", ")"} THEN rest
          ELSE <<c>> \o rest

RECURSIVE Join(_)
\* the string a sequence of characters spells
Join(chars) == IF chars = <<>> THEN "" ELSE Head(chars) \o Join(Tail(chars))

\* f"{current_username}/{safe_filename}"
file_path(username, name) == username \o "/" \o Join(safe_filename(name))
get_public_url(path) == "https://storage/file/" \o path

\* upload(..., upsert = true): the object at the path is replaced
Upload(path, bytes) ==
  {b \in blobs : b.path # path} \cup {[path |-> path, bytes |-> bytes]}

\* fetch_projects(query, subject, level, sort_by) for query = "" and "Recent"
Matches(r, subject, level) ==
  /\ (subject = "All" \/ r.subject = subject)
  /\ (level = "All" \/ \E k \in 1..Len(r.level) : r.level[k] = level)

fetch_projects(key) ==
  Reverse(SeqFilter(projects, {i \in 1..Len(projects) : Matches(projects[i], key[2], key[3])}))

\* fetch_leaderboard(): username and xp by xp descending, ties in any order, top 50
LeaderboardOrders ==
  {p \in [1..Len(users) -> 1..Len(users)] :
     /\ \A i, j \in 1..Len(users) : i # j => p[i] # p[j]
     /\ \A i, j \in 1..Len(users) : i < j => users[p[i]].xp >= users[p[j]].xp}

fetch_leaderboard(p) ==
  SubSeq([i \in 1..Len(users) |-> [username |-> users[p[i]].username, xp |-> users[p[i]].xp]],
         1, Min(Len(users), LB_LIMIT))

Cached(data) == [hit |-> TRUE, data |-> data]
ClearedProjCache == [k \in ListingKeys |-> NoCache]

\* DataManager.get_user_likes's query for a username
LikedBy(name) ==
  LET rows == SeqFilter(project_likes,
                        {i \in 1..Len(project_likes) : project_likes[i].username = name})
  IN [i \in 1..Len(rows) |-> rows[i].project_id]

InSeq(x, q) == \E i \in 1..Len(q) : q[i] = x

NoLoc == [op |-> None]
Snapshot(s) ==
  [users |-> users, projects |-> projects, project_likes |-> project_likes,
   blobs |-> blobs, projCache |-> projCache, lbCache |-> lbCache,
   user |-> user[s], user_likes |-> user_likes[s], liked |-> liked[s],
   session |-> s]
NoPre == [session |-> None]

Quiet == \A t \in Sessions : pc[t] = "idle"

\* ------------------------------------------------------------------- Init
Account(email, username, password) ==
  [email |-> email, username |-> username, password |-> password, xp |-> 0]

SessionInit ==
  /\ projCache = ClearedProjCache
  /\ lbCache = NoCache
  /\ user = [s \in Sessions |-> NoUser]
  /\ user_likes = [s \in Sessions |-> <<>>]
  /\ pc = [s \in Sessions |-> "idle"]
  /\ loc = [s \in Sessions |-> NoLoc]
  /\ ret = [s \in Sessions |-> None]
  /\ fault = [s \in Sessions |-> FALSE]
  /\ dirty = [s \in Sessions |-> FALSE]
  /\ pre = NoPre
  /\ calls = 0
  /\ liked = [s \in Sessions |-> {}]

\* An empty database.
InitEmpty ==
  /\ users = <<>>
  /\ projects = <<>>
  /\ project_likes = <<>>
  /\ blobs = {}
  /\ SessionInit

\* A database in which amy and bob have signed up.
InitSeeded ==
  /\ users = << Account(<<"amy", "sst.edu.sg">>, "amy", hash_password("pw")),
                Account(<<"bob", "sst.edu.sg">>, "bob", hash_password("pw")) >>
  /\ projects = <<>>
  /\ project_likes = <<>>
  /\ blobs = {}
  /\ SessionInit

\* The same after amy has posted one note without a file (and got its XP_NOTE).
InitNote ==
  /\ users = << [Account(<<"amy", "sst.edu.sg">>, "amy", hash_password("pw"))
                   EXCEPT !.xp = XP_NOTE],
                Account(<<"bob", "sst.edu.sg">>, "bob", hash_password("pw")) >>
  /\ projects = << [id |-> 1, title |-> "Algebra Notes", subject |-> "Math",
                    level |-> <<"Sec 2">>, author |-> "amy", description |-> "Ch1-3",
                    file |-> NO_FILE, file_name |-> None, file_size |-> 0, likes |-> 0] >>
  /\ project_likes = <<>>
  /\ blobs = {}
  /\ SessionInit

\* ------------------------------------------------------- calls and returns
\* A handler of an idle session starts a call with the given locals.
Begin(s, label, locals) ==
  /\ pc[s] = "idle"
  /\ pc' = [pc EXCEPT ![s] = label]
  /\ loc' = [loc EXCEPT ![s] = locals]

\* The call hands its value back to the handler that made it.
Return(s, value) ==
  /\ pc' = [pc EXCEPT ![s] = "done"]
  /\ ret' = [ret EXCEPT ![s] = value]
  /\ loc' = loc

Goto(s, label) ==
  /\ pc' = [pc EXCEPT ![s] = label]
  /\ UNCHANGED <<loc, ret>>

\* The handler takes the value (lines 549, 572, 620, 663) and the script run ends.
Resume(s) ==
  /\ pc[s] = "done"
  /\ pc' = [pc EXCEPT ![s] = "idle"]
  /\ loc' = [loc EXCEPT ![s] = NoLoc]
  /\ ret' = [ret EXCEPT ![s] = None]
  /\ fault' = [fault EXCEPT ![s] = FALSE]
  /\ dirty' = [dirty EXCEPT ![s] = FALSE]
  /\ pre' = NoPre
  /\ UNCHANGED <<stores, projCache, lbCache, user, user_likes, calls, liked>>

Raised(s) == fault' = [fault EXCEPT ![s] = TRUE]
Wrote(s) == dirty' = [dirty EXCEPT ![s] = TRUE]

\* fetch_projects.clear() and fetch_leaderboard.clear()
ClearMemos ==
  /\ projCache' = ClearedProjCache
  /\ lbCache' = NoCache

\* DataManager.refresh_user's effect on the session's account snapshot
refresh_user(s) ==
  IF user[s] # NoUser /\ UsersByName(user[s].username) # <<>>
  THEN [user EXCEPT ![s] = UsersByName(user[s].username)[1]]
  ELSE user

\* Variant: the sign-in guard lets every session through.
AnyoneIn(s) == TRUE

\* lines 210 and 266: 'user' in st.session_state and st.session_state.user
SignedIn(s) == user[s] # NoUser

\* lines 213 and 274: st.session_state.user['username']
Username(s) == IF user[s] = NoUser THEN None ELSE user[s].username

\* ------------------------------------------------------- DataManager.add_note
\* lines 209-222: the sign-in guard and the locals before the first external call
AddNoteBegin(s, title, subject, level, description, uploaded_file) ==
  LET args == [op |-> "add_note", title |-> title, subject |-> subject, level |-> level,
               description |-> description, uploaded_file |-> uploaded_file,
               current_username |-> None, file_url |-> NO_FILE, file_name |-> None,
               file_size |-> 0, current_xp |-> 0]
  IN /\ calls' = calls + 1
     /\ IF ~SignedIn(s)
        THEN /\ Begin(s, "done", args)
             /\ ret' = [ret EXCEPT ![s] = False]
        ELSE /\ ret' = ret
             /\ IF uploaded_file = NoUpload
                THEN Begin(s, "an_insert", [args EXCEPT !.current_username = Username(s)])
                ELSE Begin(s, "an_upload",
                           [args EXCEPT !.current_username = Username(s),
                                        !.file_name = Join(uploaded_file.name),
                                        !.file_size = uploaded_file.size])

\* lines 225-231: storage upload with upsert
AddNoteUpload(s) ==
  /\ pc[s] = "an_upload"
  /\ blobs' = Upload(file_path(loc[s].current_username, loc[s].uploaded_file.name),
                     loc[s].uploaded_file.bytes)
  /\ Goto(s, "an_url")
  /\ UNCHANGED <<users, projects, project_likes, projCache, lbCache, user, user_likes,
                 fault, dirty, pre, calls, liked>>

\* line 232
AddNoteUrl(s) ==
  /\ pc[s] = "an_url"
  /\ pc' = [pc EXCEPT ![s] = "an_insert"]
  /\ loc' = [loc EXCEPT ![s].file_url =
               get_public_url(file_path(loc[s].current_username, loc[s].uploaded_file.name))]
  /\ UNCHANGED <<stores, projCache, lbCache, user, user_likes, ret, fault, dirty, pre, calls, liked>>

\* lines 237-247
new_note(l, id) ==
  [id |-> id, title |-> l.title, subject |-> l.subject, level |-> <<l.level>>,
   author |-> l.current_username, description |-> l.description, file |-> l.file_url,
   file_name |-> l.file_name, file_size |-> l.file_size, likes |-> 0]

\* line 250
AddNoteInsert(s) ==
  /\ pc[s] = "an_insert"
  /\ projects' = Append(projects, new_note(loc[s], Len(projects) + 1))
  /\ Wrote(s)
  /\ Goto(s, "an_select")
  /\ UNCHANGED <<users, project_likes, blobs, projCache, lbCache, user, user_likes,
                 fault, pre, calls, liked>>

\* lines 257-258, after which the call stands at the select of refresh_user
AddNoteClear(s) ==
  /\ ClearMemos
  /\ dirty' = [dirty EXCEPT ![s] = FALSE]
  /\ pc' = [pc EXCEPT ![s] = "an_finish"]

\* lines 251-253, and lines 257-258 when the account is not found
AddNoteSelect(s) ==
  /\ pc[s] = "an_select"
  /\ LET author_data == UsersByName(loc[s].current_username)
     IN IF author_data # <<>>
        THEN /\ pc' = [pc EXCEPT ![s] = "an_update"]
             /\ loc' = [loc EXCEPT ![s].current_xp = author_data[1].xp]
             /\ UNCHANGED <<projCache, lbCache, dirty>>
        ELSE /\ AddNoteClear(s)
             /\ loc' = loc
  /\ UNCHANGED <<stores, user, user_likes, ret, fault, pre, calls, liked>>

\* Variant: a note earns what a like earns.
AddNoteXpLike(current_xp) == current_xp + XP_LIKE

\* line 254
AddNoteXp(current_xp) == current_xp + XP_NOTE

\* lines 255-258
AddNoteUpdate(s) ==
  /\ pc[s] = "an_update"
  /\ users' = UpdateXp(loc[s].current_username, AddNoteXp(loc[s].current_xp))
  /\ AddNoteClear(s)
  /\ UNCHANGED <<projects, project_likes, blobs, user, user_likes, loc, ret,
                 fault, pre, calls, liked>>

\* lines 259-260: refresh_user's select answers, return True
AddNoteFinish(s) ==
  /\ pc[s] = "an_finish"
  /\ user' = refresh_user(s)
  /\ Return(s, True)
  /\ UNCHANGED <<stores, projCache, lbCache, user_likes, fault, dirty, pre, calls, liked>>

\* the same with refresh_user's select raising (caught at lines 195-196)
AddNoteFinishStale(s) ==
  /\ pc[s] = "an_finish"
  /\ Raised(s)
  /\ Return(s, True)
  /\ UNCHANGED <<stores, projCache, lbCache, user, user_likes, dirty, pre, calls, liked>>

\* Variant: a failed upload is swallowed and the note is recorded without a file.
FailUploadContinues(s) ==
  /\ pc[s] \in {"an_upload", "an_url"}
  /\ Raised(s)
  /\ Goto(s, "an_insert")
  /\ UNCHANGED <<stores, projCache, lbCache, user, user_likes, dirty, pre, calls, liked>>

\* lines 233-235: the upload or the address lookup raises
FailUpload(s) ==
  /\ pc[s] \in {"an_upload", "an_url"}
  /\ Raised(s)
  /\ Return(s, False)
  /\ UNCHANGED <<stores, projCache, lbCache, user, user_likes, dirty, pre, calls, liked>>

\* lines 261-263: a database call raises
FailAddNote(s) ==
  /\ pc[s] \in {"an_insert", "an_select", "an_update"}
  /\ Raised(s)
  /\ Return(s, False)
  /\ UNCHANGED <<stores, projCache, lbCache, user, user_likes, dirty, pre, calls, liked>>

\* ------------------------------------------------------ DataManager.like_note
\* lines 265-274: the sign-in guard and the session like-set guard
LikeNoteBegin(s, note_id, current_likes, note_author) ==
  LET args == [op |-> "like_note", note_id |-> note_id, current_likes |-> current_likes,
               note_author |-> note_author, current_username |-> None, current_xp |-> 0]
  IN /\ calls' = calls + 1
     /\ IF ~SignedIn(s) \/ InSeq(note_id, user_likes[s])
        THEN /\ Begin(s, "done", args)
             /\ ret' = [ret EXCEPT ![s] = False]
        ELSE /\ Begin(s, "ln_insert", [args EXCEPT !.current_username = Username(s)])
             /\ ret' = ret

\* lines 275-278
LikeNoteInsert(s) ==
  /\ pc[s] = "ln_insert"
  /\ project_likes' = Append(project_likes,
                             [project_id |-> loc[s].note_id,
                              username |-> loc[s].current_username])
  /\ Wrote(s)
  /\ Goto(s, "ln_update")
  /\ UNCHANGED <<users, projects, blobs, projCache, lbCache, user, user_likes, fault,
                 pre, calls, liked>>

\* line 279: current_likes + 1
LikeNoteCount(current_likes) == current_likes + 1

LikeNoteUpdate(s) ==
  /\ pc[s] = "ln_update"
  /\ projects' = UpdateLikes(loc[s].note_id, LikeNoteCount(loc[s].current_likes))
  /\ Wrote(s)
  /\ Goto(s, "ln_select")
  /\ UNCHANGED <<users, project_likes, blobs, projCache, lbCache, user, user_likes,
                 fault, pre, calls, liked>>

\* Variant: a like earns what a note earns.
LikeNoteXpNote(current_xp) == current_xp + XP_NOTE

\* line 284
LikeNoteXp(current_xp) == current_xp + XP_LIKE

\* line 287: st.session_state.user_likes.append(note_id)
Remember(likes, note_id) == Append(likes, note_id)

\* lines 287-292: remember the like and clear both memos; then the author's own
\* like stands at the select of refresh_user, any other returns True
LikeNoteRemember(s) ==
  /\ user_likes' = [user_likes EXCEPT ![s] = Remember(@, loc[s].note_id)]
  /\ ClearMemos
  /\ dirty' = [dirty EXCEPT ![s] = FALSE]
  /\ IF loc[s].current_username = loc[s].note_author
     THEN /\ Goto(s, "ln_finish")
          /\ liked' = liked
     ELSE /\ Return(s, True)
          /\ liked' = [liked EXCEPT ![s] = @ \cup {<<loc[s].current_username, loc[s].note_id>>}]

\* lines 281-283, and lines 287-292 when the author is not found
LikeNoteSelect(s) ==
  /\ pc[s] = "ln_select"
  /\ LET author_data == UsersByName(loc[s].note_author)
     IN IF author_data # <<>>
        THEN /\ pc' = [pc EXCEPT ![s] = "ln_award"]
             /\ loc' = [loc EXCEPT ![s].current_xp = author_data[1].xp]
             /\ UNCHANGED <<projCache, lbCache, user_likes, ret, dirty, liked>>
        ELSE LikeNoteRemember(s)
  /\ UNCHANGED <<stores, user, fault, pre, calls>>

\* lines 285-292
LikeNoteAward(s) ==
  /\ pc[s] = "ln_award"
  /\ users' = UpdateXp(loc[s].note_author, LikeNoteXp(loc[s].current_xp))
  /\ LikeNoteRemember(s)
  /\ UNCHANGED <<projects, project_likes, blobs, user, fault, pre, calls>>

\* lines 291-292: refresh_user's select answers, return True
LikeNoteFinish(s) ==
  /\ pc[s] = "ln_finish"
  /\ user' = refresh_user(s)
  /\ Return(s, True)
  /\ liked' = [liked EXCEPT ![s] = @ \cup {<<loc[s].current_username, loc[s].note_id>>}]
  /\ UNCHANGED <<stores, projCache, lbCache, user_likes, fault, dirty, pre, calls>>

\* the same with refresh_user's select raising (caught at lines 195-196)
LikeNoteFinishStale(s) ==
  /\ pc[s] = "ln_finish"
  /\ Raised(s)
  /\ Return(s, True)
  /\ liked' = [liked EXCEPT ![s] = @ \cup {<<loc[s].current_username, loc[s].note_id>>}]
  /\ UNCHANGED <<stores, projCache, lbCache, user, user_likes, dirty, pre, calls>>

\* lines 293-295: an external call raises
FailLikeNote(s) ==
  /\ pc[s] \in {"ln_insert", "ln_update", "ln_select", "ln_award"}
  /\ Raised(s)
  /\ Return(s, False)
  /\ UNCHANGED <<stores, projCache, lbCache, user, user_likes, dirty, pre, calls, liked>>

\* ---------------------------------------------- login form and logout button
\* lines 544-548: the form is shown to an anonymous session only
LoginSubmit(s, email, password) ==
  /\ user[s] = NoUser
  /\ Begin(s, "lg_select", [op |-> "login", email |-> email, password |-> password])
  /\ UNCHANGED <<stores, projCache, lbCache, user, user_likes, ret, fault, dirty, pre, calls, liked>>

\* lines 153-157 and 549-550
LoginSelect(s) ==
  /\ pc[s] = "lg_select"
  /\ LET data == SeqFilter(users, {i \in 1..Len(users) :
                                     /\ users[i].email = loc[s].email
                                     /\ users[i].password = hash_password(loc[s].password)})
     IN IF data # <<>>
        THEN /\ user' = [user EXCEPT ![s] = data[1]]
             /\ Goto(s, "lg_likes")
        ELSE /\ user' = user
             /\ Return(s, False)
  /\ UNCHANGED <<stores, projCache, lbCache, user_likes, fault, dirty, pre, calls>>
  /\ liked' = liked

\* lines 158-159
FailLogin(s) ==
  /\ pc[s] = "lg_select"
  /\ Raised(s)
  /\ Return(s, False)
  /\ UNCHANGED <<stores, projCache, lbCache, user, user_likes, dirty, pre, calls, liked>>

\* lines 551 and 198-204
LoginLikes(s) ==
  /\ pc[s] = "lg_likes"
  /\ user_likes' = [user_likes EXCEPT ![s] = LikedBy(user[s].username)]
  /\ Return(s, True)
  /\ UNCHANGED <<stores, projCache, lbCache, user, fault, dirty, pre, calls, liked>>

\* lines 205-207: get_user_likes's query raises and [] is returned
LoginLikesFail(s) ==
  /\ pc[s] = "lg_likes"
  /\ user_likes' = [user_likes EXCEPT ![s] = <<>>]
  /\ Raised(s)
  /\ Return(s, True)
  /\ UNCHANGED <<stores, projCache, lbCache, user, dirty, pre, calls, liked>>

\* lines 596-599
Logout(s) ==
  /\ pc[s] = "idle"
  /\ user[s] # NoUser
  /\ user' = [user EXCEPT ![s] = NoUser]
  /\ user_likes' = [user_likes EXCEPT ![s] = <<>>]
  /\ UNCHANGED <<stores, projCache, lbCache, pc, loc, ret, fault, dirty, pre, calls>>
  /\ liked' = liked

\* --------------------------------------------------------------- sign-up form
\* sessions whose call may still insert an account
Joining == Cardinality({t \in Sessions : pc[t] \in {"su_username", "su_email", "su_insert",
                                                     "oa_code", "oa_exchange", "oa_email",
                                                     "oa_username", "oa_insert"}})

\* lines 565-571 and 126-127: the form of an anonymous session; the length check
SignupSubmit(s, email, username, password) ==
  /\ user[s] = NoUser
  /\ Len(users) + Joining < MaxUsers
  /\ LET args == [op |-> "signup", email |-> email, username |-> username,
                  password |-> password]
     IN IF USERNAME_MIN <= Len(username) /\ Len(username) <= USERNAME_MAX
        THEN /\ Begin(s, "su_username", args)
             /\ ret' = ret
        ELSE /\ Begin(s, "done", args)
             /\ ret' = [ret EXCEPT ![s] = False]
  /\ UNCHANGED <<stores, projCache, lbCache, user, user_likes, fault, dirty, pre, calls, liked>>

\* lines 129-131
SignupCheckUsername(s) ==
  /\ pc[s] = "su_username"
  /\ IF UsersByName(loc[s].username) # <<>>
     THEN Return(s, False)
     ELSE Goto(s, "su_email")
  /\ UNCHANGED <<stores, projCache, lbCache, user, user_likes, fault, dirty, pre, calls, liked>>

\* lines 133-135
SignupCheckEmail(s) ==
  /\ pc[s] = "su_email"
  /\ IF UsersByEmail(loc[s].email) # <<>>
     THEN Return(s, False)
     ELSE Goto(s, "su_insert")
  /\ UNCHANGED <<stores, projCache, lbCache, user, user_likes, fault, dirty, pre, calls, liked>>

\* lines 137-146 and 572-574: the insert; the handler signs the new account in
SignupInsert(s) ==
  /\ pc[s] = "su_insert"
  /\ LET row == Account(loc[s].email, loc[s].username, hash_password(loc[s].password))
     IN /\ users' = Append(users, row)
        /\ user' = [user EXCEPT ![s] = row]
  /\ user_likes' = [user_likes EXCEPT ![s] = <<>>]
  /\ Return(s, True)
  /\ UNCHANGED <<projects, project_likes, blobs, projCache, lbCache, fault, dirty, pre, calls>>
  /\ liked' = liked

\* lines 148-149
FailSignup(s) ==
  /\ pc[s] \in {"su_username", "su_email", "su_insert"}
  /\ Raised(s)
  /\ Return(s, False)
  /\ UNCHANGED <<stores, projCache, lbCache, user, user_likes, dirty, pre, calls, liked>>

\* ------------------------------------------------------------- OAuth callback
\* lines 432-468: a redirect brings a code; email is the address the provider
\* will vouch for, has_verifier whether the session still holds the verifier
OAuthCallback(s, email, has_verifier) ==
  /\ Len(users) + Joining < MaxUsers
  /\ Begin(s, IF has_verifier THEN "oa_exchange" ELSE "oa_code",
           [op |-> "oauth", email |-> email, has_verifier |-> has_verifier,
            username |-> None, exchanges |-> 0])
  /\ UNCHANGED <<stores, projCache, lbCache, user, user_likes, ret, fault, dirty, pre, calls, liked>>

\* lines 464, 466 and 468: one more supabase.auth.exchange_code_for_session
\* call of this callback has been issued; the callback goes on at label
Exchanged(s, label) ==
  /\ pc' = [pc EXCEPT ![s] = label]
  /\ loc' = [loc EXCEPT ![s].exchanges = @ + 1]

\* line 464: without a verifier the code alone is tried first
ExchangeCode(s) ==
  /\ pc[s] = "oa_code"
  /\ Exchanged(s, "oa_email")
  /\ ret' = ret
  /\ UNCHANGED <<stores, projCache, lbCache, user, user_likes, fault, dirty, pre, calls, liked>>

\* lines 465-466: that attempt raises and the code and verifier are tried
ExchangeCodeFails(s) ==
  /\ pc[s] = "oa_code"
  /\ Raised(s)
  /\ Exchanged(s, "oa_exchange")
  /\ ret' = ret
  /\ UNCHANGED <<stores, projCache, lbCache, user, user_likes, dirty, pre, calls, liked>>

\* lines 466 and 468
ExchangeParams(s) ==
  /\ pc[s] = "oa_exchange"
  /\ Exchanged(s, "oa_email")
  /\ ret' = ret
  /\ UNCHANGED <<stores, projCache, lbCache, user, user_likes, fault, dirty, pre, calls, liked>>

\* lines 481-485: the exchange raises
FailExchange(s) ==
  /\ pc[s] = "oa_exchange"
  /\ Raised(s)
  /\ Exchanged(s, "done")
  /\ ret' = [ret EXCEPT ![s] = False]
  /\ UNCHANGED <<stores, projCache, lbCache, user, user_likes, dirty, pre, calls, liked>>

\* lines 469 and 479-480: the exchange returns no session with an e-mail
NoSession(s) ==
  /\ pc[s] \in {"oa_code", "oa_exchange"}
  /\ Exchanged(s, "done")
  /\ ret' = [ret EXCEPT ![s] = False]
  /\ UNCHANGED <<stores, projCache, lbCache, user, user_likes, fault, dirty, pre, calls, liked>>

\* lines 164-166 and 471-472: sync_google_user finds the account of the e-mail
SyncSelectEmail(s) ==
  /\ pc[s] = "oa_email"
  /\ LET res == UsersByEmail(loc[s].email)
     IN IF res # <<>>
        THEN /\ user' = [user EXCEPT ![s] = res[1]]
             /\ Goto(s, "oa_likes")
        ELSE /\ user' = user
             /\ Goto(s, "oa_username")
  /\ UNCHANGED <<stores, projCache, lbCache, user_likes, fault, dirty, pre, calls>>
  /\ liked' = liked

\* line 172: random.randint(100, 999), over the first NumSuffix values
Suffixes == {n \in RAND_LO..RAND_HI : n < RAND_LO + NumSuffix}

\* lines 168-172: the local part, with a random suffix when it is taken
SyncPickUsername(s) ==
  /\ pc[s] = "oa_username"
  /\ LET username == loc[s].email[1]
     IN IF UsersByName(username) # <<>>
        THEN \E n \in Suffixes : loc' = [loc EXCEPT ![s].username = username \o ToString(n)]
        ELSE loc' = [loc EXCEPT ![s].username = username]
  /\ pc' = [pc EXCEPT ![s] = "oa_insert"]
  /\ UNCHANGED <<stores, projCache, lbCache, user, user_likes, ret, fault, dirty, pre, calls, liked>>

\* lines 174-182 and 471-472
SyncInsert(s) ==
  /\ pc[s] = "oa_insert"
  /\ LET row == Account(loc[s].email, loc[s].username, GOOGLE_AUTH_USER)
     IN /\ users' = Append(users, row)
        /\ user' = [user EXCEPT ![s] = row]
  /\ Goto(s, "oa_likes")
  /\ UNCHANGED <<projects, project_likes, blobs, projCache, lbCache, user_likes, fault,
                 dirty, pre, calls>>
  /\ liked' = liked

\* lines 184-186 and 477-478: sync_google_user returns None
FailSync(s) ==
  /\ pc[s] \in {"oa_email", "oa_username", "oa_insert"}
  /\ Raised(s)
  /\ Return(s, False)
  /\ UNCHANGED <<stores, projCache, lbCache, user, user_likes, dirty, pre, calls, liked>>

\* Variant: the callback leaves the like-set as it was.
OAuthKeepsLikes(s) ==
  /\ pc[s] = "oa_likes"
  /\ Return(s, True)
  /\ UNCHANGED <<stores, projCache, lbCache, user, user_likes, fault, dirty, pre, calls, liked>>

\* line 473
OAuthLikes(s) ==
  /\ pc[s] = "oa_likes"
  /\ user_likes' = [user_likes EXCEPT ![s] = LikedBy(user[s].username)]
  /\ Return(s, True)
  /\ UNCHANGED <<stores, projCache, lbCache, user, fault, dirty, pre, calls, liked>>

\* lines 205-207 reached from line 473
OAuthLikesFail(s) ==
  /\ pc[s] = "oa_likes"
  /\ user_likes' = [user_likes EXCEPT ![s] = <<>>]
  /\ Raised(s)
  /\ Return(s, True)
  /\ UNCHANGED <<stores, projCache, lbCache, user, dirty, pre, calls, liked>>

\* ------------------------------------------------------------ page reruns
\* line 585: the signed-in page starts with refresh_user
RefreshUser(s) ==
  /\ pc[s] = "idle"
  /\ user[s] # NoUser
  /\ user' = refresh_user(s)
  /\ user' # user
  /\ UNCHANGED <<stores, projCache, lbCache, user_likes, pc, loc, ret, fault, dirty, pre, calls, liked>>

\* get_projects through the memo: the listing, and the memo afterwards
Listing(key) == IF projCache[key].hit THEN projCache[key].data ELSE fetch_projects(key)
Memoized(key) == [projCache EXCEPT ![key] = Cached(Listing(key))]

\* line 633: the Notes Forum tab fills the listing memo
ViewNotes(s, key) ==
  /\ pc[s] = "idle"
  /\ user[s] # NoUser
  /\ ~projCache[key].hit
  /\ projCache' = Memoized(key)
  /\ UNCHANGED <<stores, lbCache, user, user_likes, pc, loc, ret, fault, dirty, pre, calls, liked>>

\* line 673: the Leaderboard tab fills the leaderboard memo
ViewLeaderboard(s) ==
  /\ pc[s] = "idle"
  /\ user[s] # NoUser
  /\ ~lbCache.hit
  /\ \E p \in LeaderboardOrders : lbCache' = Cached(fetch_leaderboard(p))
  /\ UNCHANGED <<stores, projCache, user, user_likes, pc, loc, ret, fault, dirty, pre, calls, liked>>

\* lines 87 and 103: a memo entry outlives its ttl
ExpireNotes(key) ==
  /\ projCache[key].hit
  /\ projCache' = [projCache EXCEPT ![key] = NoCache]
  /\ UNCHANGED <<stores, lbCache, user, user_likes, pc, loc, ret, fault, dirty, pre, calls, liked>>

ExpireLeaderboard ==
  /\ lbCache.hit
  /\ lbCache' = NoCache
  /\ UNCHANGED <<stores, projCache, user, user_likes, pc, loc, ret, fault, dirty, pre, calls, liked>>

\* lines 616-619: the upload form of the signed-in page
UploadSubmit(s, uploads) ==
  /\ user[s] # NoUser
  /\ \E title \in Titles, subject \in Subjects, level \in Levels,
        description \in Descriptions, uploaded_file \in uploads :
       AddNoteBegin(s, title, subject, level, description, uploaded_file)
  /\ UNCHANGED <<stores, projCache, lbCache, user, user_likes, fault, dirty, pre, liked>>

\* lines 633 and 659-663: the like button of a listed note, enabled while the
\* note is not in the session like-set; its arguments are the listed row's
LikeClick(s, key) ==
  /\ user[s] # NoUser
  /\ \E i \in 1..Len(Listing(key)) :
       LET note == Listing(key)[i]
       IN /\ ~InSeq(note.id, user_likes[s])
          /\ LikeNoteBegin(s, note.id, note.likes, note.author)
  /\ projCache' = Memoized(key)
  /\ UNCHANGED <<stores, lbCache, user, user_likes, fault, dirty, pre, liked>>

\* ------------------------------------------------ direct calls, one at a time
Authors == {users[i].username : i \in 1..Len(users)} \cup {"zed"}

AddNoteCall(s) ==
  /\ Quiet
  /\ calls < MaxApiCalls
  /\ \E title \in Titles, subject \in Subjects, level \in Levels,
        description \in Descriptions, uploaded_file \in Files \cup {NoUpload} :
       AddNoteBegin(s, title, subject, level, description, uploaded_file)
  /\ pre' = Snapshot(s)
  /\ UNCHANGED <<stores, projCache, lbCache, user, user_likes, fault, dirty, liked>>

LikeNoteCall(s) ==
  /\ Quiet
  /\ calls < MaxApiCalls
  /\ \E note_id \in 1..Len(projects), current_likes \in 0..MaxLikesArg,
        note_author \in Authors :
       LikeNoteBegin(s, note_id, current_likes, note_author)
  /\ pre' = Snapshot(s)
  /\ UNCHANGED <<stores, projCache, lbCache, user, user_likes, fault, dirty, liked>>

\* ------------------------------------------------------------ specifications
AddNoteSteps(s) ==
  \/ AddNoteInsert(s) \/ AddNoteSelect(s) \/ AddNoteUpdate(s)
  \/ AddNoteFinish(s) \/ AddNoteFinishStale(s) \/ FailAddNote(s)

UploadSteps(s) == AddNoteUpload(s) \/ AddNoteUrl(s) \/ FailUpload(s)

LikeNoteSteps(s) ==
  \/ LikeNoteInsert(s) \/ LikeNoteUpdate(s) \/ LikeNoteSelect(s)
  \/ LikeNoteAward(s) \/ LikeNoteFinish(s) \/ LikeNoteFinishStale(s) \/ FailLikeNote(s)

LoginSteps(s) ==
  \/ LoginSelect(s) \/ FailLogin(s) \/ LoginLikes(s) \/ LoginLikesFail(s)

SignupSteps(s) ==
  \/ SignupCheckUsername(s) \/ SignupCheckEmail(s) \/ SignupInsert(s) \/ FailSignup(s)

OAuthSteps(s) ==
  \/ ExchangeCode(s) \/ ExchangeCodeFails(s) \/ ExchangeParams(s) \/ FailExchange(s)
  \/ NoSession(s) \/ SyncSelectEmail(s) \/ SyncPickUsername(s) \/ SyncInsert(s)
  \/ FailSync(s) \/ OAuthLikes(s) \/ OAuthLikesFail(s)

\* The signed-in pages of concurrent sessions over a database with two accounts;
\* notes are posted without a file.
Next ==
  \/ \E s \in Sessions :
       \/ \E email \in Emails, password \in Passwords : LoginSubmit(s, email, password)
       \/ LoginSteps(s)
       \/ Resume(s)
       \/ Logout(s)
       \/ RefreshUser(s)
       \/ \E key \in ListingKeys : ViewNotes(s, key)
       \/ ViewLeaderboard(s)
       \/ calls < MaxCalls /\ UploadSubmit(s, {NoUpload})
       \/ AddNoteSteps(s)
       \/ \E key \in ListingKeys : calls < MaxCalls /\ LikeClick(s, key)
       \/ LikeNoteSteps(s)
  \/ \E key \in ListingKeys : ExpireNotes(key)
  \/ ExpireLeaderboard

Spec == InitSeeded /\ [][Next]_vars

\* The like buttons of concurrent sessions on a note that amy has posted.
NextLikes ==
  \/ \E s \in Sessions :
       \/ \E email \in Emails, password \in Passwords : LoginSubmit(s, email, password)
       \/ LoginSteps(s)
       \/ Resume(s)
       \/ Logout(s)
       \/ RefreshUser(s)
       \/ \E key \in ListingKeys : ViewNotes(s, key)
       \/ ViewLeaderboard(s)
       \/ \E key \in ListingKeys : calls < MaxLikeCalls /\ LikeClick(s, key)
       \/ LikeNoteSteps(s)
  \/ \E key \in ListingKeys : ExpireNotes(key)
  \/ ExpireLeaderboard

SpecLikes == InitNote /\ [][NextLikes]_vars

\* DataManager's methods called directly by one session, one call at a time,
\* with any arguments, signed in or not; nothing else happens during a call.
NextApi ==
  \/ \E s \in Callers :
       \/ \E email \in Emails, password \in Passwords :
            Quiet /\ LoginSubmit(s, email, password)
       \/ LoginSteps(s)
       \/ Resume(s)
       \/ Quiet /\ Logout(s)
       \/ \E key \in ListingKeys : Quiet /\ ViewNotes(s, key)
       \/ Quiet /\ ViewLeaderboard(s)
       \/ AddNoteCall(s)
       \/ UploadSteps(s)
       \/ AddNoteSteps(s)
       \/ LikeNoteCall(s)
       \/ LikeNoteSteps(s)
  \/ \E key \in ListingKeys : Quiet /\ ExpireNotes(key)
  \/ Quiet /\ ExpireLeaderboard

SpecApi == InitNote /\ [][NextApi]_vars

\* Sign-up, sign-in through either path and sign-out of concurrent sessions,
\* starting from an empty users table.
NextAuth ==
  \E s \in Sessions :
    \/ \E email \in NewEmails, username \in NewUsernames, password \in Passwords :
         SignupSubmit(s, email, username, password)
    \/ SignupSteps(s)
    \/ \E email \in NewEmails, has_verifier \in BOOLEAN : OAuthCallback(s, email, has_verifier)
    \/ OAuthSteps(s)
    \/ \E email \in NewEmails, password \in Passwords : LoginSubmit(s, email, password)
    \/ LoginSteps(s)
    \/ Resume(s)
    \/ Logout(s)

SpecAuth == InitEmpty /\ [][NextAuth]_vars

\* Every operation of DataManager and the OAuth callback, one at a time.
NextOps ==
  \E s \in Callers :
    \/ \E email \in Emails, password \in Passwords :
         Quiet /\ LoginSubmit(s, email, password)
    \/ LoginSteps(s)
    \/ \E email \in NewEmails, username \in NewUsernames, password \in Passwords :
         Quiet /\ SignupSubmit(s, email, username, password)
    \/ SignupSteps(s)
    \/ \E email \in NewEmails, has_verifier \in BOOLEAN :
         Quiet /\ OAuthCallback(s, email, has_verifier)
    \/ OAuthSteps(s)
    \/ Resume(s)
    \/ Quiet /\ Logout(s)
    \/ calls < MaxOpsCalls /\ AddNoteCall(s)
    \/ UploadSteps(s)
    \/ AddNoteSteps(s)
    \/ calls < MaxOpsCalls /\ LikeNoteCall(s)
    \/ LikeNoteSteps(s)

SpecOps == InitNote /\ [][NextOps]_vars

\* ------------------------------------------------------------- leveling
\* Floats are kept to Precision digits: a quotient in units of 1/Precision^2,
\* a square root in units of 1/Precision, each rounded to the nearest unit.

\* line 22: xp / 50 (true division)
TrueDiv(a, b) == (2 * a * Precision * Precision + b) \div (2 * b)

\* the largest r in lo..hi-1 with r*r <= n
RECURSIVE Bisect(_, _, _)
Bisect(lo, hi, n) ==
  IF hi - lo <= 1 THEN lo
  ELSE LET mid == (lo + hi) \div 2
       IN IF mid * mid <= n THEN Bisect(mid, hi, n) ELSE Bisect(lo, mid, n)

\* line 22: math.sqrt, rounded to nearest
sqrt(q) ==
  LET r == Bisect(0, Min(q, 46339) + 1, q)
  IN IF q - r * r > r THEN r + 1 ELSE r

\* Variant: the root is rounded to the nearest integer.
round(x) == (2 * x + Precision) \div (2 * Precision)

\* line 22: math.floor
floor(x) == x \div Precision

\* lines 21-22
calculate_level(xp) == floor(sqrt(TrueDiv(xp, 50)))

\* Variant: the threshold of the level itself.
calculate_level_xp(level) == 50 * (level * level)

\* lines 24-25
calculate_next_level_xp(level) == 50 * ((level + 1) * (level + 1))

\* lines 591-595: the header shows the level and xp/next_level_xp of the snapshot
Header(s) ==
  /\ pc[s] = "idle"
  /\ SignedIn(s)
  /\ LET xp == user[s].xp
         level == calculate_level(xp)
     IN Begin(s, "done", [op |-> "header", xp |-> xp, level |-> level,
                          next_level_xp |-> calculate_next_level_xp(level)])
  /\ UNCHANGED <<stores, projCache, lbCache, user, user_likes, ret, fault, dirty, pre,
                 calls, liked>>

\* amy is signed in with any xp up to MaxXp.
InitLevel ==
  \E xp \in 0..MaxXp :
    LET row == [Account(<<"amy", "sst.edu.sg">>, "amy", hash_password("pw"))
                  EXCEPT !.xp = xp]
    IN /\ users = <<row>>
       /\ projects = <<>>
       /\ project_likes = <<>>
       /\ blobs = {}
       /\ projCache = ClearedProjCache
       /\ lbCache = NoCache
       /\ user = [s \in Sessions |-> IF s \in Callers THEN row ELSE NoUser]
       /\ user_likes = [s \in Sessions |-> <<>>]
       /\ pc = [s \in Sessions |-> "idle"]
       /\ loc = [s \in Sessions |-> NoLoc]
       /\ ret = [s \in Sessions |-> None]
       /\ fault = [s \in Sessions |-> FALSE]
       /\ dirty = [s \in Sessions |-> FALSE]
       /\ pre = NoPre
       /\ calls = 0
       /\ liked = [s \in Sessions |-> {}]

\* The signed-in page rendered for any stored xp.
NextLevel ==
  \E s \in Sessions :
    \/ Header(s)
    \/ Resume(s)

SpecLevel == InitLevel /\ [][NextLevel]_vars

\* ------------------------------------------------------------------ claims
LedgerCount(id) ==
  Cardinality({i \in 1..Len(project_likes) : project_likes[i].project_id = id})

LikeInProgress ==
  \E s \in Sessions : pc[s] \in {"ln_insert", "ln_update", "ln_select", "ln_award", "ln_finish"}

\* A direct call of session s has returned and its handler has not resumed.
Called(s, op) == pc[s] = "done" /\ loc[s].op = op /\ pre.session = s

\* Nothing a call could write differs from when the call began.
Untouched(s) ==
  /\ users = pre.users
  /\ projects = pre.projects
  /\ project_likes = pre.project_likes
  /\ blobs = pre.blobs
  /\ user_likes[s] = pre.user_likes
  /\ projCache = pre.projCache
  /\ lbCache = pre.lbCache

\* C1: no step of any session lowers the stored xp of any account.
XpNeverDecreases ==
  [][\A i \in 1..Len(users) : users'[i].xp >= users[i].xp]_vars

\* C2: while no like_note call is in progress, every note's like
\* count equals the number of ledger rows that reference the note.
LikesEqualLedger ==
  ~LikeInProgress =>
    \A i \in 1..Len(projects) : projects[i].likes = LedgerCount(projects[i].id)

\* C3: the ledger holds at most one row per (note, username).
LedgerUnique ==
  \A i, j \in 1..Len(project_likes) : i # j => project_likes[i] # project_likes[j]

\* C4: no two accounts share a username and no two share an e-mail.
UsersUnique ==
  \A i, j \in 1..Len(users) :
    i # j => users[i].username # users[j].username /\ users[i].email # users[j].email

\* C5: a like_note call by a signed-in session whose like-set lacks the note,
\* with no external call raising, returns True, appends the one ledger row,
\* sets the note's count to current_likes + 1, raises the author's xp by 10
\* when the author exists (no xp changes otherwise) and appends the note to
\* the like-set.
LikeApplies(s) ==
  /\ Called(s, "like_note")
  /\ pre.user # NoUser
  /\ ~InSeq(loc[s].note_id, pre.user_likes)
  /\ ~fault[s]

LikeNoteEffect ==
  \A s \in Sessions :
    LikeApplies(s) =>
      /\ ret[s] = True
      /\ project_likes = Append(pre.project_likes,
                                [project_id |-> loc[s].note_id,
                                 username |-> pre.user.username])
      /\ Len(projects) = Len(pre.projects)
      /\ \A i \in 1..Len(projects) :
           projects[i] = IF pre.projects[i].id = loc[s].note_id
                         THEN [pre.projects[i] EXCEPT !.likes = loc[s].current_likes + 1]
                         ELSE pre.projects[i]
      /\ Len(users) = Len(pre.users)
      /\ \A i \in 1..Len(users) :
           users[i] = IF pre.users[i].username = loc[s].note_author
                      THEN [pre.users[i] EXCEPT !.xp = @ + 10]
                      ELSE pre.users[i]
      /\ user_likes[s] = Append(pre.user_likes, loc[s].note_id)
      /\ blobs = pre.blobs

\* C5 witness: such a call has returned and its author's xp has grown.
LikeNoteApplied ==
  \E s \in Sessions :
    /\ LikeApplies(s)
    /\ loc[s].current_likes = 1
    /\ users # pre.users

\* C6: a like_note call on a note for which a like_note of the same session
\* and the same user has returned True returns False and changes no store, no
\* like-set and no memo.
LikeRepeated(s) ==
  /\ Called(s, "like_note")
  /\ pre.user # NoUser
  /\ <<pre.user.username, loc[s].note_id>> \in pre.liked

RepeatedLikeRejected ==
  \A s \in Sessions : LikeRepeated(s) => ret[s] = False /\ Untouched(s)

\* C7: an add_note call without a file by a signed-in session, with no
\* external call raising, returns True, appends one note with likes 0 by the
\* acting username, raises that account's xp by 15, changes nothing else and
\* leaves the session's snapshot equal to the stored account.
AddApplies(s) ==
  /\ Called(s, "add_note")
  /\ pre.user # NoUser
  /\ loc[s].uploaded_file = NoUpload
  /\ ~fault[s]

AddNoteEffect ==
  \A s \in Sessions :
    AddApplies(s) =>
      /\ ret[s] = True
      /\ Len(projects) = Len(pre.projects) + 1
      /\ SubSeq(projects, 1, Len(pre.projects)) = pre.projects
      /\ projects[Len(projects)].likes = 0
      /\ projects[Len(projects)].author = pre.user.username
      /\ projects[Len(projects)].file = NO_FILE
      /\ Len(users) = Len(pre.users)
      /\ \A i \in 1..Len(users) :
           users[i] = IF pre.users[i].username = pre.user.username
                      THEN [pre.users[i] EXCEPT !.xp = @ + 15]
                      ELSE pre.users[i]
      /\ project_likes = pre.project_likes
      /\ blobs = pre.blobs
      /\ \E i \in 1..Len(users) : users[i] = user[s]

\* C7 witness: such a call has returned.
AddNoteApplied == \E s \in Sessions : AddApplies(s) /\ user[s].xp = pre.user.xp + 15

\* C8: add_note and like_note of a session that is not signed in return
\* False and change no store, no like-set and no memo.
Anonymous(s) ==
  /\ pc[s] = "done"
  /\ loc[s].op \in {"add_note", "like_note"}
  /\ pre.session = s
  /\ pre.user = NoUser

AnonymousRejected ==
  \A s \in Sessions : Anonymous(s) => ret[s] = False /\ Untouched(s)

\* C8 witness: an anonymous like_note call has returned while a note exists.
AnonymousReturned ==
  \E s \in Sessions : Anonymous(s) /\ loc[s].op = "like_note" /\ pre.lbCache # NoCache

\* C9: an add_note call whose upload or address lookup raised returns False
\* with no note inserted and no xp changed.
UploadFailed(s) ==
  /\ Called(s, "add_note")
  /\ pre.user # NoUser
  /\ loc[s].uploaded_file # NoUpload
  /\ loc[s].file_url = NO_FILE

UploadFailureAborts ==
  \A s \in Sessions :
    UploadFailed(s) =>
      ret[s] = False /\ projects = pre.projects /\ users = pre.users
                     /\ project_likes = pre.project_likes

\* C9 witness: the address lookup raised after the object was stored.
UploadFailureSeen == \E s \in Sessions : UploadFailed(s) /\ blobs # pre.blobs

\* C10: a returned add_note or like_note call that wrote a store has cleared
\* both memos since its last write.
MemosClearedAfterWrite ==
  \A s \in Sessions :
    (pc[s] = "done" /\ loc[s].op \in {"add_note", "like_note"}) => ~dirty[s]

\* A header has been rendered for session s.
Shown(s) == pc[s] = "done" /\ loc[s].op = "header"

\* C11: the level shown for xp is the largest L with 50*L*L <= xp, no smaller
\* xp has a higher level, and xp 0, 50, 199, 200 have levels 0, 1, 1, 2.
LevelIsRoot ==
  \A s \in Sessions :
    Shown(s) =>
      /\ loc[s].level >= 0
      /\ 50 * loc[s].level * loc[s].level <= loc[s].xp
      /\ 50 * (loc[s].level + 1) * (loc[s].level + 1) > loc[s].xp
      /\ \A x \in 0..loc[s].xp : calculate_level(x) <= loc[s].level
      /\ loc[s].xp = 0 => loc[s].level = 0
      /\ loc[s].xp = 50 => loc[s].level = 1
      /\ loc[s].xp = 199 => loc[s].level = 1
      /\ loc[s].xp = 200 => loc[s].level = 2

\* C11 witness: the header of an account one point short of level 2.
LevelShown == \E s \in Sessions : Shown(s) /\ loc[s].xp = 199 /\ loc[s].level = 1

\* C15: with L the level shown for xp, 50*L*L <= xp < next_level_xp =
\* 50*(L+1)*(L+1), and the level of next_level_xp is L + 1.
NextLevelAhead ==
  \A s \in Sessions :
    Shown(s) =>
      /\ 50 * loc[s].level * loc[s].level <= loc[s].xp
      /\ loc[s].xp < loc[s].next_level_xp
      /\ loc[s].next_level_xp = 50 * (loc[s].level + 1) * (loc[s].level + 1)
      /\ calculate_level(loc[s].next_level_xp) = loc[s].level + 1

\* C15 witness: the header of an account on the threshold of level 2.
ThresholdShown ==
  \E s \in Sessions : Shown(s) /\ loc[s].xp = 200 /\ loc[s].next_level_xp = 450

\* C12: once an external call of an attempt has raised, the attempt issues no
\* further external call, and a callback issues the code exchange at most once.
NoRetry ==
  [][\A s \in Sessions :
       /\ (fault[s] /\ pc[s] # "done") => pc'[s] = pc[s]
       /\ loc'[s].op = "oauth" => loc'[s].exchanges <= 1]_vars

\* An authentication of session s has just succeeded.
Authenticated(s) ==
  /\ pc[s] = "done"
  /\ loc[s].op \in {"login", "signup", "oauth"}
  /\ ret[s] = True

\* C13: right after a successful login, signup or OAuth callback the session's
\* account is the stored account of the e-mail given, and its like-set holds
\* exactly the notes that have a ledger row for that account's username.
LikesLoaded ==
  \A s \in Sessions :
    Authenticated(s) =>
      /\ user[s] # NoUser
      /\ user[s].email = loc[s].email
      /\ \E i \in 1..Len(users) : users[i] = user[s]
      /\ {user_likes[s][i] : i \in 1..Len(user_likes[s])} =
           {project_likes[i].project_id :
              i \in {j \in 1..Len(project_likes) :
                       project_likes[j].username = user[s].username}}

\* The like-set of session s is empty when s is anonymous, and otherwise holds
\* only notes that have a ledger row for (note, the session account's username).
Backed(s) ==
  IF user[s] = NoUser
  THEN user_likes[s] = <<>>
  ELSE \A i \in 1..Len(user_likes[s]) :
         \E j \in 1..Len(project_likes) :
           /\ project_likes[j].project_id = user_likes[s][i]
           /\ project_likes[j].username = user[s].username

\* C14: in every state, every session's like-set is empty when it is anonymous
\* and backed by ledger rows of its account when it is signed in.
LikeSetAlwaysBacked == \A s \in Sessions : Backed(s)

\* C14 as amended: the same in every state but those in which an OAuth callback
\* of the session has set the account and its load of the like-set has not
\* yet answered.
LikeSetBacked == \A s \in Sessions : pc[s] # "oa_likes" => Backed(s)

\* C14 witness: a callback has signed the session in as another account than
\* the one whose like it made earlier.
AccountSwitched ==
  \E s \in Sessions :
    /\ Authenticated(s)
    /\ loc[s].op = "oauth"
    /\ \E p \in liked[s] : p[1] # user[s].username

====
